---- MODULE Spec2Model ----
(***************************************************************************)
(* Model of the Git publisher of the atom crate (crates/atom/src/publish)   *)
(* and of the store operations it relies on (crates/atom/src/store/git.rs). *)
(*                                                                         *)
(* Object ids are content addresses: an object is identified by the record  *)
(* that describes its content, so equal content has equal ids and different *)
(* content has different ids.                                               *)
(***************************************************************************)
EXTENDS Integers, Sequences, FiniteSets, TLC

VARIABLES
    remote,      \* the remote repository: HEAD, root tag, atom references
    odb,         \* objects of the local repository (trees and commits)
    refs,        \* references of the local repository: full name -> target
    publisher,   \* the GitContext handed out by build, or NoPublisher
    push_tasks,  \* GitContext.push_tasks, the JoinSet of push tasks
    errors,      \* the errors vector the caller hands to await_pushes
    awaiting,    \* position of the caller inside await_pushes
    last,        \* the last call of the caller and what it returned
    calls,       \* number of calls made so far
    published,   \* history: the (commit, path) pairs reported Published so far
    spawned,     \* history: the references the publisher spawned a push task for
    finished,    \* history: the push tasks of the publisher that ran to
                 \* completion, with their status
    vrecords,    \* validation harness: the traversal records handed to validate
    vresult,     \* validation harness: what validate returned for vrecords
    racers,      \* racing publishers: each one's context, position and result
    input,       \* function harness: the argument drawn for a function
    output       \* function harness: what the function returned for input

vars == <<remote, odb, refs, publisher, push_tasks, errors, awaiting, last,
          calls, published, spawned, finished, vrecords, vresult, racers,
          input, output>>

(***************************************************************************)
(* Bounds of the model.                                                     *)
(***************************************************************************)
\* publish_atom calls of a session
MaxCalls == 3
\* publish calls of a session
MaxPublishCalls == 2
\* paths handed to one publish call
MaxPaths == 2
\* publish_atom calls of a session that awaits its pushes
MaxPushCalls == 2
\* records of a snapshot handed to validate
MaxRecords == 3
\* characters of a short string handed to Id::validate
MaxIdLen == 2

(***************************************************************************)
(* Program constants.                                                       *)
(***************************************************************************)
TOML == "toml"
\* format!("@.{}", TOML): a name ends in it when its stem ends in "@" and its
\* extension is TOML
ATOM_EXT == [stem |-> <<"@">>, ext |-> TOML]
EMPTY_SIG == ""
ATOM_FORMAT_VERSION == "1"
ATOM_REF_TOP_LEVEL == "atoms"
ATOM_MANIFEST == "spec"
ATOM_ORIGIN == "src"
ATOM_LOCK == "lock"
\* Reference names are sequences of path segments; a segment is the sequence of
\* the pieces it is formatted from.
Seg(s) == <<s>>
V1_ROOT == <<Seg("refs"), Seg("tags"), Seg("ekala"), Seg("root"), Seg("v1")>>
HEAD == <<Seg("HEAD")>>

None == [tag |-> "None"]
Some(v) == [tag |-> "Some", val |-> v]
Ok(v) == [tag |-> "Ok", val |-> v]
Err(e) == [tag |-> "Err", error |-> e]

(***************************************************************************)
(* The repository the publisher works on.  A path names an entry at the top *)
(* level of the tree: its stem, as the sequence of its characters, and its  *)
(* extension ("a@.toml" is the stem <<"a", "@">> with the extension "toml").*)
(* A blob holding a manifest is described by what Manifest::get_atom makes  *)
(* of its text.                                                             *)
(***************************************************************************)
Path(stem, ext) == [stem |-> stem, ext |-> ext]

ManifestText(id, version, description) ==
    [kind |-> "blob", toml |-> TRUE, atom_key |-> TRUE, schema |-> TRUE,
     id |-> id, version |-> version, description |-> description]
NoAtomKeyText == [kind |-> "blob", toml |-> TRUE, atom_key |-> FALSE, schema |-> FALSE,
                  id |-> "", version |-> "", description |-> ""]
BrokenToml == [kind |-> "blob", toml |-> FALSE, atom_key |-> FALSE, schema |-> FALSE,
               id |-> "", version |-> "", description |-> ""]
LockText(n) == [kind |-> "blob", toml |-> TRUE, atom_key |-> FALSE, schema |-> FALSE,
                id |-> "", version |-> "", description |-> n]
DirTree(n) == [kind |-> "dir", content |-> n]

Record(stem, ext, mode, oid) ==
    [filepath |-> Path(stem, ext), mode |-> mode, oid |-> oid]

\* The commits of the local repository: two histories with different roots.
Commits == {"c1", "c2", "c3", "c4", "d1"}

\* The commits of the histories a remote can hold: besides the above, d2 on
\* top of d1, the merge m1 of c3 and d2, and s2, the tip of a history whose
\* older part cannot be read (s1).
StoreCommits == Commits \cup {"d2", "m1", "s2"}

\* The commits whose object the traversal fails to read
Unreadable == {"s1"}

Parents(c) ==
    CASE c = "c1" -> {}
      [] c = "c2" -> {"c1"}
      [] c = "c3" -> {"c2"}
      [] c = "c4" -> {"c3"}
      [] c = "d1" -> {}
      [] c = "d2" -> {"d1"}
      [] c = "m1" -> {"c3", "d2"}
      [] c = "s2" -> {"s1"}
      [] c = "s1" -> {}

CommitTime(c) ==
    CASE c = "c1" -> 1
      [] c = "c2" -> 2
      [] c = "c3" -> 3
      [] c = "c4" -> 4
      [] c = "d1" -> 1
      [] c = "d2" -> 5
      [] c = "m1" -> 6
      [] c = "s1" -> 6
      [] c = "s2" -> 7

\* The flattened tree of each commit, in the order of a breadth-first traversal.
TreeOf(c) ==
    CASE c = "c1" ->
           << Record(<<"a", "@">>, "toml", "blob", ManifestText("foo", "0.1.0", "one")) >>
      [] c = "c2" ->
           << Record(<<"a", "@">>, "toml", "blob", ManifestText("foo", "0.1.0", "two")),
              Record(<<"b", "@">>, "lock", "blob", LockText("l1")),
              Record(<<"b", "@">>, "toml", "blob", ManifestText("bar", "0.1.0", "one")),
              Record(<<"b", "@">>, "", "tree", DirTree("b1")) >>
      [] c = "c3" ->
           << Record(<<"a", "@">>, "toml", "blob", ManifestText("foo", "0.1.0", "one")),
              Record(<<"a", "@">>, "", "tree", DirTree("a1")),
              Record(<<"b", "@">>, "toml", "blob", BrokenToml),
              Record(<<"c">>, "", "tree", DirTree("c1")),
              Record(<<"c", "@">>, "toml", "tree", DirTree("c2")),
              Record(<<"e">>, "toml", "blob", ManifestText("bar", "0.1.0", "one")) >>
      [] c = "c4" ->
           << Record(<<"a", "@">>, "toml", "blob", ManifestText("foo", "0.1.0", "one")),
              Record(<<"b", "@">>, "toml", "blob", ManifestText("foo", "0.2.0", "one")) >>
      [] c = "d1" ->
           << Record(<<"a", "@">>, "toml", "blob", ManifestText("foo", "0.1.0", "one")) >>

CommitId(c) == [type |-> "commit", name |-> c]

(***************************************************************************)
(* store/git.rs: the root of a history and the Ekala store check.           *)
(***************************************************************************)
\* The commit an oldest-first walk yields next: the oldest of the queue.
Oldest(queue) ==
    CHOOSE c \in queue :
        \A d \in queue :
            CommitTime(c) <= CommitTime(d)

\* The loop `while let Some(Ok(info)) = walk.next()`: it ends when the walk
\* is exhausted and when the walk yields an error, and RootNotFound follows.
RECURSIVE walk_oldest_first(_, _)
walk_oldest_first(queue, seen) ==
    IF queue = {}
    THEN Err([kind |-> "RootNotFound"])
    ELSE LET c == Oldest(queue)
         IN  IF c \in Unreadable
             THEN Err([kind |-> "RootNotFound"])
             ELSE IF Parents(c) = {}
             THEN Ok(c)
             ELSE walk_oldest_first((queue \ {c}) \cup (Parents(c) \ seen),
                                    seen \cup Parents(c))

\* Commit::calculate_root taking the first commit of the walk for the root.
calculate_root_tip(c, all_ok) ==
    IF all_ok
    THEN Ok(c)
    ELSE Err([kind |-> "WalkFailure"])

\* Commit::calculate_root with the outcome of setting the walk up
\* (`.all()?`), the only place a walk error is passed on as WalkFailure.
calculate_root_on(c, all_ok) ==
    IF all_ok
    THEN walk_oldest_first({c}, {c})
    ELSE Err([kind |-> "WalkFailure"])

calculate_root(c) == calculate_root_on(c, TRUE)

\* QueryStore::get_refs: the set of the ids the requested names resolve to.
get_refs(rem, names) ==
    {rem.refs[n] : n \in (names \cap DOMAIN rem.refs)}
        \cup (IF HEAD \in names THEN {CommitId(rem.head)} ELSE {})

root_for(ids) ==
    IF ids = {}
    THEN Err([kind |-> "NoRef"])
    ELSE LET id == CHOOSE x \in ids : TRUE
         IN  IF Parents(id.name) # {}
             THEN calculate_root(id.name)
             ELSE Ok(id.name)

ekala_root(rem) ==
    LET i   == get_refs(rem, {HEAD, V1_ROOT})
        fst == root_for(i)
        i2  == IF i = {} THEN {} ELSE i \ {CHOOSE x \in i : TRUE}
        snd == root_for(i2)
    IN  IF fst.tag = "Err" THEN fst
        ELSE IF snd.tag = "Err" THEN snd
        ELSE IF fst.val = snd.val THEN Ok(fst.val)
        ELSE Err([kind |-> "RootInconsistent"])

(***************************************************************************)
(* publish/git/inner.rs: locating and verifying an Atom.                    *)
(***************************************************************************)
\* Manifest::get_atom (manifest.rs)
get_atom(content) ==
    IF ~content.toml THEN Err([kind |-> "InvalidToml"])
    ELSE IF ~content.atom_key THEN Err([kind |-> "Missing"])
    ELSE IF ~content.schema THEN Err([kind |-> "InvalidAtom"])
    ELSE Ok([id |-> content.id, version |-> content.version,
             description |-> content.description])

verify_manifest(obj, path) ==
    LET r == get_atom(obj)
    IN  IF r.tag = "Ok" THEN r
        ELSE Err([kind |-> "Invalid", cause |-> r.error, path |-> path])

tree_search(tree, path) ==
    IF \E i \in DOMAIN tree : tree[i].filepath = path
    THEN Some(tree[CHOOSE i \in DOMAIN tree : tree[i].filepath = path])
    ELSE None

with_extension(path, ext) == [path EXCEPT !.ext = ext]

\* Option::and_then(|e| e.mode().is_<mode>().then_some(e))
only_mode(entry, mode) ==
    IF entry.tag = "Some" /\ entry.val.mode = mode THEN entry ELSE None

find_and_verify_atom(ctx, path) ==
    LET lock  == with_extension(path, ATOM_LOCK)
        dir   == with_extension(path, "")
        entry == tree_search(ctx.tree, path)
    IN  IF entry.tag = "None" \/ entry.val.mode # "blob"
        THEN Err([kind |-> "NotAFile", path |-> path])
        ELSE
        LET lockE == only_mode(tree_search(ctx.tree, lock), "blob")
            dirE  == only_mode(tree_search(ctx.tree, dir), "tree")
            spec  == verify_manifest(entry.val.oid, path)
            root  == calculate_root(ctx.commit)
        IN  IF spec.tag = "Err" THEN spec
            ELSE IF root.tag = "Err" THEN Err([kind |-> "StoreError", cause |-> root.error])
            ELSE Ok([spec |-> spec.val,
                     id |-> [root |-> root.val, id |-> spec.val.id],
                     path |-> path,
                     entries |->
                        CASE lockE.tag = "None" /\ dirE.tag = "None" -> <<entry.val>>
                          [] lockE.tag = "None" /\ dirE.tag = "Some" -> <<entry.val, dirE.val>>
                          [] lockE.tag = "Some" /\ dirE.tag = "None" -> <<entry.val, lockE.val>>
                          [] OTHER -> <<entry.val, dirE.val, lockE.val>>])

(***************************************************************************)
(* publish/git/inner.rs: trees, commits and references of an Atom.          *)
(***************************************************************************)
atom_entry(entry) ==
    [mode |-> entry.mode, filename |-> entry.filepath, oid |-> entry.oid]

\* The order of tree entries: file names compared bytewise, a directory
\* comparing as its name followed by '/'.  In bytes '.' < '/' < '@' < letters.
CharRank(ch) ==
    CASE ch = "." -> 1 [] ch = "/" -> 2 [] ch = "@" -> 3
      [] ch = "a" -> 4 [] ch = "b" -> 5 [] ch = "c" -> 6 [] ch = "e" -> 7
      [] ch = "lock" -> 8 [] ch = "toml" -> 9 [] OTHER -> 10

EntryKey(e) ==
    [i \in DOMAIN e.filename.stem |-> CharRank(e.filename.stem[i])]
        \o (IF e.filename.ext = "" THEN <<>>
            ELSE <<CharRank("."), CharRank(e.filename.ext)>>)
        \o (IF e.mode = "tree" THEN <<CharRank("/")>> ELSE <<>>)

RECURSIVE KeyLess(_, _)
KeyLess(k1, k2) ==
    IF k2 = <<>> THEN FALSE
    ELSE IF k1 = <<>> THEN TRUE
    ELSE IF Head(k1) # Head(k2) THEN Head(k1) < Head(k2)
    ELSE KeyLess(Tail(k1), Tail(k2))

EntryLess(e1, e2) == KeyLess(EntryKey(e1), EntryKey(e2))

RECURSIVE insert_sorted(_, _)
insert_sorted(e, sorted) ==
    IF sorted = <<>> THEN <<e>>
    ELSE IF EntryLess(Head(sorted), e)
         THEN <<Head(sorted)>> \o insert_sorted(e, Tail(sorted))
         ELSE <<e>> \o sorted

RECURSIVE sort_unstable(_)
sort_unstable(entries) ==
    IF entries = <<>> THEN <<>>
    ELSE insert_sorted(Head(entries), sort_unstable(Tail(entries)))

RECURSIVE filter_blobs(_)
filter_blobs(entries) ==
    IF entries = <<>> THEN <<>>
    ELSE IF Head(entries).mode = "blob"
         THEN <<atom_entry(Head(entries))>> \o filter_blobs(Tail(entries))
         ELSE filter_blobs(Tail(entries))

AtomTree(entries) == [type |-> "tree", entries |-> entries]

\* impl Display for AtomRef
AtomRefName(kind, prefix, version) ==
    CASE kind = "Content" -> prefix \o <<Seg(version)>>
      [] kind = "Spec"    -> prefix \o <<<<"_", ATOM_MANIFEST, "s">>, Seg(version)>>
      [] kind = "Origin"  -> prefix \o <<<<"_", ATOM_ORIGIN, "s">>, Seg(version)>>

\* AtomContext::set: the reference prefix of an Atom
ref_prefix(id) == <<Seg(ATOM_REF_TOP_LEVEL), Seg(id)>>

\* AtomContext::refs
atom_refs(atom, kind) == AtomRefName(kind, ref_prefix(atom.spec.id), atom.spec.version)

\* Repository::find_reference of a partial name: the first of the lookup
\* locations of a reference name that exists.
find_reference(rs, name) ==
    \E full \in { name,
                  <<Seg("refs")>> \o name,
                  <<Seg("refs"), Seg("tags")>> \o name,
                  <<Seg("refs"), Seg("heads")>> \o name,
                  <<Seg("refs"), Seg("remotes")>> \o name } :
        full \in DOMAIN rs

\* Repository::find_tree
find_tree(objects, id) == id \in objects /\ id.type = "tree"

\* Variant: the skip check never finds the Atom published
ref_exists_never(objects, rs, tree, atom_ref) == FALSE

ref_exists(objects, rs, tree, atom_ref) ==
    find_tree(objects, tree) /\ find_reference(rs, atom_ref)

\* The sorted content tree of write_atom_tree
content_tree(atom) == AtomTree(sort_unstable([i \in DOMAIN atom.entries |->
                                                  atom_entry(atom.entries[i])]))

\* Variant: the spec tree keeps every entry of the Atom
spec_tree_unfiltered(atom) ==
    AtomTree([i \in DOMAIN atom.entries |-> atom_entry(atom.entries[i])])

\* The spec tree of write_refs: the blob entries, in the order discovered
spec_tree(atom) == AtomTree(filter_blobs(atom.entries))

\* Variant: the signatures take their time from the number of earlier calls
atom_commit_clocked(ctx, atom, tree_id) ==
    [type |-> "commit",
     tree |-> tree_id,
     parents |-> <<>>,
     author |-> [name |-> EMPTY_SIG, email |-> EMPTY_SIG, seconds |-> calls, offset |-> 0],
     committer |-> [name |-> EMPTY_SIG, email |-> EMPTY_SIG, seconds |-> calls, offset |-> 0],
     message |-> <<atom.spec.id, ": ", atom.spec.version>>,
     extra_headers |-> << <<ATOM_ORIGIN, ctx.commit>>,
                          <<"path", "">>,
                          <<"format", ATOM_FORMAT_VERSION>> >>]

\* The commit object of write_atom_commit
atom_commit(ctx, atom, tree_id) ==
    [type |-> "commit",
     tree |-> tree_id,
     parents |-> <<>>,
     author |-> [name |-> EMPTY_SIG, email |-> EMPTY_SIG, seconds |-> 0, offset |-> 0],
     committer |-> [name |-> EMPTY_SIG, email |-> EMPTY_SIG, seconds |-> 0, offset |-> 0],
     message |-> <<atom.spec.id, ": ", atom.spec.version>>,
     extra_headers |-> << <<ATOM_ORIGIN, ctx.commit>>,
                          <<"path", "">>,
                          <<"format", ATOM_FORMAT_VERSION>> >>]

\* Variant: the edit is made with PreviousValue::Any
reference_any(rs, name, id) ==
    Ok([n \in DOMAIN rs \cup {name} |-> IF n = name THEN id ELSE rs[n]])

\* Repository::reference(name, id, PreviousValue::MustNotExist, ..): the edit
\* is refused when the reference exists with another target; it changes
\* nothing when the reference exists with the target asked for.
reference_must_not_exist(rs, name, id) ==
    IF name \in DOMAIN rs
    THEN IF rs[name] = id THEN Ok(rs) ELSE Err([kind |-> "RefUpdateFailed", name |-> name])
    ELSE Ok([n \in DOMAIN rs \cup {name} |-> IF n = name THEN id ELSE rs[n]])

write_ref(rs, atom, id, atom_ref) ==
    reference_must_not_exist(rs, <<Seg("refs")>> \o atom_ref, id)

(***************************************************************************)
(* publish/git/mod.rs: publish_atom.  A store is the pair of the local      *)
(* object database and the local references; `fail` names the write of the  *)
(* pipeline that the repository refuses with an I/O error ("none": no       *)
(* write is refused).                                                       *)
(***************************************************************************)
FailPoints == {"none", "tree", "commit", "spec_tree", "Spec", "Content", "Origin"}

Store(objects, rs) == [odb |-> objects, refs |-> rs]

Outcome(st, spawn, result) ==
    [odb |-> st.odb, refs |-> st.refs, spawn |-> spawn, result |-> result]

IoError(what) == Err([kind |-> "Io", what |-> what])

\* GitContext::write_object
write_object(objects, obj, refused) ==
    IF refused THEN IoError("write_object") ELSE Ok(objects \cup {obj})

\* AtomContext::write_atom_tree: Skipped, or the store with the tree written
write_atom_tree(st, atom, fail) ==
    LET tree == content_tree(atom)
    IN  IF ref_exists(st.odb, st.refs, tree, atom_refs(atom, "Content"))
        THEN [tag |-> "Skipped", id |-> atom.spec.id]
        ELSE LET w == write_object(st.odb, tree, fail = "tree")
             IN  IF w.tag = "Err" THEN w
                 ELSE [tag |-> "Wrote", id |-> tree, odb |-> w.val]

\* AtomContext::write_atom_commit
write_atom_commit(ctx, atom, objects, tree_id, fail) ==
    LET commit == atom_commit(ctx, atom, tree_id)
        w      == write_object(objects, commit, fail = "commit")
    IN  IF w.tag = "Err" THEN w
        ELSE Ok([commit |-> commit, id |-> commit, odb |-> w.val])

\* One write_ref of write_refs; a refused edit leaves the references alone.
write_ref_step(rs, atom, id, kind, fail) ==
    IF fail = kind THEN IoError("reference")
    ELSE write_ref(rs, atom, id, atom_refs(atom, kind))

\* CommittedAtom::write_refs: the references are written in the order of the
\* fields of the AtomReferences literal: spec, content, origin.  The result
\* carries the store as the call leaves it, also when it fails.
write_refs(ctx, atom, committed, rs, fail) ==
    LET spec == spec_tree(atom)
        w    == write_object(committed.odb, spec, fail = "spec_tree")
        src  == CommitId(ctx.commit)
    IN  IF w.tag = "Err"
        THEN [tag |-> "Err", error |-> w.error, odb |-> committed.odb, refs |-> rs]
        ELSE
        LET r1 == write_ref_step(rs, atom, spec, "Spec", fail)
        IN  IF r1.tag = "Err"
            THEN [tag |-> "Err", error |-> r1.error, odb |-> w.val, refs |-> rs]
            ELSE
            LET r2 == write_ref_step(r1.val, atom, committed.id, "Content", fail)
            IN  IF r2.tag = "Err"
                THEN [tag |-> "Err", error |-> r2.error, odb |-> w.val, refs |-> r1.val]
                ELSE
                LET r3 == write_ref_step(r2.val, atom, src, "Origin", fail)
                IN  IF r3.tag = "Err"
                    THEN [tag |-> "Err", error |-> r3.error, odb |-> w.val,
                          refs |-> r2.val]
                    ELSE [tag |-> "Ok", odb |-> w.val, refs |-> r3.val,
                          spec |-> spec, content |-> committed.id, origin |-> src]

FullRef(atom, kind) == <<Seg("refs")>> \o atom_refs(atom, kind)

\* The digest that write_refs writes to the reference of a kind.
DigestOf(ctx, atom, kind) ==
    CASE kind = "Spec"    -> spec_tree(atom)
      [] kind = "Content" -> atom_commit(ctx, atom, content_tree(atom))
      [] kind = "Origin"  -> CommitId(ctx.commit)

\* AtomReferences::push: the references whose push tasks are spawned, in the
\* order of the loop, and the GitContent handed back.
push_spawn_content(atom) == <<FullRef(atom, "Content")>>

push_spawn(atom) == <<FullRef(atom, "Content"), FullRef(atom, "Spec"), FullRef(atom, "Origin")>>

GitContent(atom, written) ==
    [spec    |-> [name |-> FullRef(atom, "Spec"), target |-> written.spec],
     content |-> [name |-> FullRef(atom, "Content"), target |-> written.content],
     origin  |-> [name |-> FullRef(atom, "Origin"), target |-> written.origin],
     path |-> atom.path,
     ref_prefix |-> ref_prefix(atom.spec.id)]

Published(atom, content) ==
    [tag |-> "Published", id |-> atom.id, content |-> content, path |-> atom.path]
Skipped(id, path) == [tag |-> "Skipped", id |-> id, path |-> path]
Failed(error, path) == [tag |-> "Err", error |-> error, path |-> path]

publish_atom(ctx, st, path, fail) ==
    LET found == find_and_verify_atom(ctx, path)
    IN  IF found.tag = "Err" THEN Outcome(st, <<>>, Failed(found.error, path))
        ELSE
        LET atom == found.val
            t    == write_atom_tree(st, atom, fail)
        IN  IF t.tag = "Skipped" THEN Outcome(st, <<>>, Skipped(t.id, path))
            ELSE IF t.tag = "Err" THEN Outcome(st, <<>>, Failed(t.error, path))
            ELSE
            LET c == write_atom_commit(ctx, atom, t.odb, t.id, fail)
            IN  IF c.tag = "Err"
                THEN Outcome(Store(t.odb, st.refs), <<>>, Failed(c.error, path))
                ELSE
                LET w == write_refs(ctx, atom, c.val, st.refs, fail)
                IN  IF w.tag = "Err"
                    THEN Outcome(Store(w.odb, w.refs), <<>>, Failed(w.error, path))
                    ELSE Outcome(Store(w.odb, w.refs), push_spawn(atom),
                                 Published(atom, GitContent(atom, w)))

(***************************************************************************)
(* publish/git/mod.rs: state validation and build.                          *)
(***************************************************************************)
\* Variant: only the extension is compared
ends_with_extension(filepath, suffix) == filepath.ext = suffix.ext

\* entry.filepath.ends_with(ATOM_EXT): the text of the path ends in the suffix
ends_with(filepath, suffix) ==
    /\ filepath.ext = suffix.ext
    /\ filepath.stem # <<>>
    /\ filepath.stem[Len(filepath.stem)] = suffix.stem[Len(suffix.stem)]

NoAtoms == [id \in {} |-> Path(<<>>, "")]

RECURSIVE validate_from(_, _, _)
validate_from(records, i, atoms) ==
    IF i > Len(records) THEN Ok(atoms)
    ELSE
    LET entry == records[i]
    IN  IF entry.mode = "blob" /\ ends_with(entry.filepath, ATOM_EXT)
        THEN LET atom == verify_manifest(entry.oid, entry.filepath)
             IN  IF atom.tag = "Ok"
                 THEN IF atom.val.id \in DOMAIN atoms
                      THEN Err([kind |-> "Duplicates"])
                      ELSE validate_from(records, i + 1,
                               [id \in DOMAIN atoms \cup {atom.val.id} |->
                                   IF id = atom.val.id THEN entry.filepath ELSE atoms[id]])
                 ELSE validate_from(records, i + 1, atoms)
        ELSE validate_from(records, i + 1, atoms)

\* StateValidator::validate over the records of the breadth-first traversal
validate(records) == validate_from(records, 1, NoAtoms)

\* GitPublisher::new
GitPublisher_new(rem) ==
    LET root == ekala_root(rem)
    IN  IF root.tag = "Err" THEN Err([kind |-> "NotInitialized"]) ELSE Ok([root |-> root.val])

\* GitContext::set
GitContext_set(commit, root) ==
    [tag |-> "GitContext", commit |-> commit, tree |-> TreeOf(commit), root |-> root]

\* Variant: build without state validation
build_unvalidated(rem, commit) ==
    LET new == GitPublisher_new(rem)
    IN  IF new.tag = "Err" THEN new
        ELSE Ok([atoms |-> NoAtoms, publisher |-> GitContext_set(commit, new.val.root)])

\* Builder::build, after GitPublisher::new
build(rem, commit) ==
    LET new == GitPublisher_new(rem)
    IN  IF new.tag = "Err" THEN new
        ELSE LET ctx   == GitContext_set(commit, new.val.root)
                 atoms == validate(ctx.tree)
             IN  IF atoms.tag = "Err" THEN atoms
                 ELSE Ok([atoms |-> atoms.val, publisher |-> ctx])

(***************************************************************************)
(* store/git.rs: path normalization, as far as publish depends on it.  A    *)
(* path given by the caller lies inside the work tree or escapes it (stem   *)
(* ".."); a bare repository has no work tree.                               *)
(***************************************************************************)
normalize(bare, path) ==
    IF bare THEN Err([kind |-> "NoWorkDir"])
    ELSE IF path.stem[1] = ".." THEN Err([kind |-> "NormalizationFailed"])
    ELSE Ok(path)

\* Variant: publish gives up at the first path that meets an error
RECURSIVE publish_from_stopping(_, _, _, _, _)
publish_from_stopping(ctx, st, paths, i, bare) ==
    IF i > Len(paths)
    THEN [odb |-> st.odb, refs |-> st.refs, spawn |-> <<>>, results |-> <<>>]
    ELSE
    LET n == normalize(bare, paths[i])
    IN  IF n.tag = "Err" /\ n.error.kind # "NoWorkDir"
        THEN [odb |-> st.odb, refs |-> st.refs, spawn |-> <<>>,
              results |-> <<Failed(n.error, paths[i])>>]
        ELSE
        LET path == IF n.tag = "Ok" THEN n.val ELSE paths[i]
            o    == publish_atom(ctx, st, path, "none")
            rest == IF o.result.tag = "Err"
                    THEN [odb |-> o.odb, refs |-> o.refs, spawn |-> <<>>, results |-> <<>>]
                    ELSE publish_from_stopping(ctx, Store(o.odb, o.refs), paths, i + 1, bare)
        IN  [rest EXCEPT !.spawn = o.spawn \o @, !.results = <<o.result>> \o @]

\* Publish::publish: publish_atom over the paths, in order, with no write
\* refused.
RECURSIVE publish_from(_, _, _, _, _)
publish_from(ctx, st, paths, i, bare) ==
    IF i > Len(paths)
    THEN [odb |-> st.odb, refs |-> st.refs, spawn |-> <<>>, results |-> <<>>]
    ELSE
    LET n == normalize(bare, paths[i])
    IN  IF n.tag = "Err" /\ n.error.kind # "NoWorkDir"
        THEN LET rest == publish_from(ctx, st, paths, i + 1, bare)
             IN  [rest EXCEPT !.results = <<Failed(n.error, paths[i])>> \o @]
        ELSE
        LET path == IF n.tag = "Ok" THEN n.val ELSE paths[i]
            o    == publish_atom(ctx, st, path, "none")
            rest == publish_from(ctx, Store(o.odb, o.refs), paths, i + 1, bare)
        IN  [rest EXCEPT !.spawn = o.spawn \o @, !.results = <<o.result>> \o @]

publish(ctx, st, paths, bare) == publish_from(ctx, st, paths, 1, bare)

(***************************************************************************)
(* The state machine of a publishing session.                               *)
(***************************************************************************)
NoPublisher == None
NoRefs == [n \in {} |-> None]

\* The paths a caller hands to publish_atom and to publish
AtomPaths == {Path(<<"a", "@">>, TOML), Path(<<"b", "@">>, TOML), Path(<<"c", "@">>, TOML)}
CallerPaths == {Path(<<"a", "@">>, TOML), Path(<<"b", "@">>, TOML), Path(<<"..", "a", "@">>, TOML)}

RECURSIVE SeqsUpTo(_, _)
SeqsUpTo(S, n) ==
    IF n = 0 THEN {<<>>}
    ELSE LET shorter == SeqsUpTo(S, n - 1)
         IN  shorter \cup {Append(q, x) : q \in {r \in shorter : Len(r) = n - 1}, x \in S}

\* The objects the local repository holds before anything is published: the
\* root tree of each of its commits.
RepoObjects ==
    {AtomTree(sort_unstable([i \in DOMAIN TreeOf(c) |-> atom_entry(TreeOf(c)[i])])) :
        c \in Commits}

\* The remote: its HEAD, and its root tag when it was initialized.
RemoteStates ==
    {[head |-> h, refs |-> r] :
        h \in {"c1", "c2"},
        r \in {NoRefs, [n \in {V1_ROOT} |-> CommitId("c1")]}}

NoRacers == <<>>

NoCall == [op |-> "none", commit |-> "", paths |-> <<>>, results |-> <<>>]

Init ==
    /\ remote \in RemoteStates
    /\ odb = RepoObjects
    /\ refs = NoRefs
    /\ publisher = NoPublisher
    /\ push_tasks = {}
    /\ errors = <<>>
    /\ awaiting = "idle"
    /\ last = NoCall
    /\ calls = 0
    /\ published = {}
    /\ spawned = {}
    /\ finished = {}
    /\ vrecords = <<>>
    /\ vresult = None
    /\ racers = NoRacers
    /\ input = None
    /\ output = None

Range(q) == {q[i] : i \in DOMAIN q}

Tasks(spawn) == {[ref |-> r, status |-> "running"] : r \in Range(spawn)}

\* GitPublisher::new(repo, remote, spec) followed by build().  The session
\* holds one publisher: a new GitContext starts with an empty join set, and
\* dropping the previous one drops the push tasks it still holds.  The caller
\* keeps one errors vector per publisher.
Build(commit) ==
    /\ awaiting = "idle"
    /\ \E b \in {build(remote, commit)} :
           /\ publisher' = IF b.tag = "Ok" THEN b.val.publisher ELSE publisher
           /\ push_tasks' = IF b.tag = "Ok" THEN {} ELSE push_tasks
           /\ spawned' = IF b.tag = "Ok" THEN {} ELSE spawned
           /\ finished' = IF b.tag = "Ok" THEN {} ELSE finished
           /\ errors' = IF b.tag = "Ok" THEN <<>> ELSE errors
           /\ last' = [op |-> "build", commit |-> commit, paths |-> <<>>,
                       results |-> <<IF b.tag = "Ok" THEN Ok(b.val.atoms) ELSE b>>]
    /\ UNCHANGED <<input, output, racers, remote, odb, refs, awaiting, calls, published, vrecords, vresult>>

\* Publish::publish_atom(path)
PublishAtom(path, fail) ==
    /\ awaiting = "idle"
    /\ publisher # NoPublisher
    /\ \E o \in {publish_atom(publisher, Store(odb, refs), path, fail)} :
           /\ odb' = o.odb
           /\ refs' = o.refs
           /\ push_tasks' = push_tasks \cup Tasks(o.spawn)
           /\ spawned' = spawned \cup Range(o.spawn)
           /\ published' = IF o.result.tag = "Published"
                           THEN published \cup {<<publisher.commit, path>>}
                           ELSE published
           /\ last' = [op |-> "publish_atom", commit |-> publisher.commit,
                       paths |-> <<path>>, results |-> <<o.result>>]
    /\ calls' = calls + 1
    /\ UNCHANGED <<input, output, racers, remote, publisher, errors, awaiting, finished, vrecords, vresult>>

\* Publish::publish(paths)
Publish(paths, bare) ==
    /\ awaiting = "idle"
    /\ publisher # NoPublisher
    /\ \E o \in {publish(publisher, Store(odb, refs), paths, bare)} :
           /\ odb' = o.odb
           /\ refs' = o.refs
           /\ push_tasks' = push_tasks \cup Tasks(o.spawn)
           /\ spawned' = spawned \cup Range(o.spawn)
           /\ published' = published \cup
                             {<<publisher.commit, o.results[i].path>> :
                                 i \in {j \in DOMAIN o.results :
                                           o.results[j].tag = "Published"}}
           /\ last' = [op |-> "publish", commit |-> publisher.commit,
                       paths |-> paths, results |-> o.results, bare |-> bare]
    /\ calls' = calls + 1
    /\ UNCHANGED <<input, output, racers, remote, publisher, errors, awaiting, finished, vrecords, vresult>>

\* One push task runs `git push <remote> <ref>:<ref>` to its end.  The remote
\* takes a reference it does not have, or has with the same target.
PushRun(t, transport_ok) ==
    /\ t \in push_tasks
    /\ t.status = "running"
    /\ LET accepted == /\ transport_ok
                       /\ \/ t.ref \notin DOMAIN remote.refs
                          \/ remote.refs[t.ref] = refs[t.ref]
           status   == IF accepted THEN "ok" ELSE "err"
       IN  /\ remote' = IF accepted
                        THEN [remote EXCEPT !.refs =
                                 [n \in DOMAIN remote.refs \cup {t.ref} |->
                                     IF n = t.ref THEN refs[t.ref] ELSE remote.refs[n]]]
                        ELSE remote
           /\ push_tasks' = (push_tasks \ {t}) \cup {[t EXCEPT !.status = status]}
           /\ finished' = finished \cup {[ref |-> t.ref, status |-> status]}
    /\ UNCHANGED <<input, output, racers, odb, refs, publisher, errors, awaiting, last, calls, published,
                   spawned, vrecords, vresult>>

\* GitContext::await_pushes: the call, each turn of its join_next loop, and
\* its return once join_next yields None.
AwaitBegin ==
    /\ awaiting = "idle"
    /\ publisher # NoPublisher
    /\ awaiting' = "joining"
    /\ UNCHANGED <<input, output, racers, remote, odb, refs, publisher, push_tasks, errors, last, calls,
                   published, spawned, finished, vrecords, vresult>>

JoinNext(t) ==
    /\ awaiting = "joining"
    /\ t \in push_tasks
    /\ t.status # "running"
    /\ push_tasks' = push_tasks \ {t}
    /\ errors' = IF t.status = "err"
                 THEN Append(errors, [kind |-> "Io", ref |-> t.ref])
                 ELSE errors
    /\ UNCHANGED <<input, output, racers, remote, odb, refs, publisher, awaiting, last, calls, published,
                   spawned, finished, vrecords, vresult>>

\* Variant: await_pushes returns after its first look at the join set
AwaitReturn_early ==
    /\ awaiting = "joining"
    /\ awaiting' = "idle"
    /\ last' = [op |-> "await_pushes", commit |-> publisher.commit, paths |-> <<>>,
                results |-> <<>>]
    /\ UNCHANGED <<input, output, racers, remote, odb, refs, publisher, push_tasks, errors, calls, published,
                   spawned, finished, vrecords, vresult>>

AwaitReturn ==
    /\ awaiting = "joining"
    /\ push_tasks = {}
    /\ awaiting' = "idle"
    /\ last' = [op |-> "await_pushes", commit |-> publisher.commit, paths |-> <<>>,
                results |-> <<>>]
    /\ UNCHANGED <<input, output, racers, remote, odb, refs, publisher, push_tasks, errors, calls, published,
                   spawned, finished, vrecords, vresult>>

\* For a path inside the work tree, a bare repository and one with a work
\* tree hand the same path to publish_atom.
BareChoices(paths) ==
    IF \E i \in DOMAIN paths : paths[i].stem[1] = ".." THEN BOOLEAN ELSE {FALSE}

DoBuild == \E commit \in Commits : Build(commit)
DoPublishAtom ==
    /\ calls < MaxCalls
    /\ \E path \in AtomPaths, fail \in FailPoints : PublishAtom(path, fail)
DoPublish ==
    /\ calls < MaxPublishCalls
    /\ \E paths \in SeqsUpTo(CallerPaths, MaxPaths) \ {<<>>} :
           \E bare \in BareChoices(paths) : Publish(paths, bare)
DoPushRun == \E t \in push_tasks, transport_ok \in BOOLEAN : PushRun(t, transport_ok)
DoJoinNext == \E t \in push_tasks : JoinNext(t)

\* A session of build and publish_atom calls
Next ==
    \/ DoBuild
    \/ DoPublishAtom

Spec == Init /\ [][Next]_vars

\* A session of build and publish calls, over the snapshots whose paths meet
\* each kind of error of publish
DoBuildPublish == \E commit \in {"c1", "c2", "c3"} : Build(commit)

NextPublish ==
    \/ DoBuildPublish
    \/ DoPublish

SpecPublish == Init /\ [][NextPublish]_vars

\* A session that publishes, lets the push tasks run and awaits them
DoBuildPush == \E commit \in {"c1", "c2"} : Build(commit)
DoPublishPush ==
    /\ calls < MaxPushCalls
    /\ \E path \in {Path(<<"a", "@">>, TOML), Path(<<"b", "@">>, TOML)} :
           PublishAtom(path, "none")

NextPush ==
    \/ DoBuildPush
    \/ DoPublishPush
    \/ DoPushRun
    \/ AwaitBegin
    \/ DoJoinNext
    \/ AwaitReturn

SpecPush == Init /\ [][NextPush]_vars

(***************************************************************************)
(* State validation on its own: validate applied to the records of a        *)
(* snapshot, drawn from the blobs and trees a traversal can meet.           *)
(***************************************************************************)
SnapshotPaths ==
    {Path(<<"a", "@">>, TOML), Path(<<"b", "@">>, TOML), Path(<<"a">>, TOML),
     Path(<<"a", "@">>, ATOM_LOCK)}

SnapshotBlobs ==
    {ManifestText("foo", "0.1.0", "one"), ManifestText("bar", "0.1.0", "one"), BrokenToml}

SnapshotRecords ==
    {[filepath |-> f, mode |-> "blob", oid |-> o] : f \in SnapshotPaths, o \in SnapshotBlobs}
        \cup {[filepath |-> f, mode |-> "tree", oid |-> DirTree("t")] : f \in SnapshotPaths}

\* A tree holds one entry per name
Snapshots ==
    {r \in SeqsUpTo(SnapshotRecords, MaxRecords) :
        \A i, j \in DOMAIN r : i # j => r[i].filepath # r[j].filepath}

InitValidate ==
    /\ remote = [head |-> "c1", refs |-> NoRefs]
    /\ odb = RepoObjects
    /\ refs = NoRefs
    /\ publisher = NoPublisher
    /\ push_tasks = {}
    /\ errors = <<>>
    /\ awaiting = "idle"
    /\ last = NoCall
    /\ calls = 0
    /\ published = {}
    /\ spawned = {}
    /\ finished = {}
    /\ vrecords \in Snapshots
    /\ vresult = None
    /\ racers = NoRacers
    /\ input = None
    /\ output = None

Validate ==
    /\ vresult = None
    /\ vresult' = Some(validate(vrecords))
    /\ UNCHANGED <<input, output, racers, remote, odb, refs, publisher, push_tasks, errors, awaiting, last,
                   calls, published, spawned, finished, vrecords>>

NextValidate == Validate

SpecValidate == InitValidate /\ [][NextValidate]_vars

(***************************************************************************)
(* The store: a remote and the local repository that initializes it.        *)
(***************************************************************************)
\* Remote::sync: the id of the remote's HEAD.
sync(rem) ==
    LET r == get_refs(rem, {HEAD})
    IN  IF r = {}
        THEN Err([kind |-> "NoRef"])
        ELSE Ok(CHOOSE x \in r : TRUE)

\* `git push <remote> <ref>:<ref>` without force: the remote takes a
\* reference it does not have and refuses to move one it has.
git_push(rem, name, id, transport_ok) ==
    IF /\ transport_ok
       /\ \/ name \notin DOMAIN rem.refs
          \/ rem.refs[name] = id
    THEN Ok([rem EXCEPT !.refs =
                [n \in DOMAIN rem.refs \cup {name} |->
                    IF n = name THEN id ELSE rem.refs[n]]])
    ELSE IoError("push")

\* Remote::ekala_init with a tag write without precondition and a forced push.
ekala_init_overwriting(rem, rs, transport_ok) ==
    LET head == sync(rem)
        root == IF head.tag = "Err" THEN head ELSE calculate_root(head.val.name)
    IN  IF root.tag = "Err"
        THEN [remote |-> rem, refs |-> rs, result |-> root]
        ELSE LET w == reference_any(rs, V1_ROOT, CommitId(root.val))
                 forced == [rem EXCEPT !.refs =
                               [n \in DOMAIN rem.refs \cup {V1_ROOT} |->
                                   IF n = V1_ROOT THEN CommitId(root.val) ELSE rem.refs[n]]]
             IN  IF transport_ok
                 THEN [remote |-> forced, refs |-> w.val, result |-> Ok(root.val)]
                 ELSE [remote |-> rem, refs |-> w.val,
                       result |-> IoError("push")]

\* Remote::ekala_init: the root of the remote's HEAD is written to the local
\* tag, which must not exist, and the tag is pushed to the remote.
ekala_init(rem, rs, transport_ok) ==
    LET head == sync(rem)
        root == IF head.tag = "Err" THEN head ELSE calculate_root(head.val.name)
        w    == IF root.tag = "Err"
                THEN root
                ELSE reference_must_not_exist(rs, V1_ROOT, CommitId(root.val))
    IN  IF w.tag = "Err"
        THEN [remote |-> rem, refs |-> rs, result |-> w]
        ELSE LET p == git_push(rem, V1_ROOT, CommitId(root.val), transport_ok)
             IN  IF p.tag = "Err"
                 THEN [remote |-> rem, refs |-> w.val, result |-> p]
                 ELSE [remote |-> p.val, refs |-> w.val, result |-> Ok(root.val)]

\* Init::is_ekala_store: true iff ekala_root succeeds.
is_ekala_store(rem) == ekala_root(rem).tag = "Ok"

\* The tags a remote can hold before the local repository acts on it.
StoreTags ==
    {NoRefs} \cup {[n \in {V1_ROOT} |-> CommitId(c)] : c \in {"c1", "c2", "d1"}}

InitStore ==
    /\ remote \in {[head |-> h, refs |-> r] : h \in StoreCommits, r \in StoreTags}
    /\ odb = RepoObjects
    /\ refs = NoRefs
    /\ publisher = NoPublisher
    /\ push_tasks = {}
    /\ errors = <<>>
    /\ awaiting = "idle"
    /\ last = NoCall
    /\ calls = 0
    /\ published = {}
    /\ spawned = {}
    /\ finished = {}
    /\ vrecords = <<>>
    /\ vresult = None
    /\ racers = NoRacers
    /\ input = None
    /\ output = None

\* A call of ekala_init on the remote from the local repository.
EkalaInit(transport_ok) ==
    /\ \E o \in {ekala_init(remote, refs, transport_ok)} :
           /\ remote' = o.remote
           /\ refs' = o.refs
           /\ last' = [op |-> "ekala_init", commit |-> remote.head, paths |-> <<>>,
                       results |-> <<o.result>>]
    /\ UNCHANGED <<input, output, racers, odb, publisher, push_tasks, errors, awaiting, calls, published,
                   spawned, finished, vrecords, vresult>>

\* A call of ekala_root on the remote.
EkalaRoot ==
    /\ last' = [op |-> "ekala_root", commit |-> remote.head, paths |-> <<>>,
                results |-> <<ekala_root(remote)>>]
    /\ UNCHANGED <<input, output, racers, remote, odb, refs, publisher, push_tasks, errors, awaiting, calls,
                   published, spawned, finished, vrecords, vresult>>

\* A call of calculate_root on a commit of the local repository.
CalculateRoot(c, all_ok) ==
    /\ last' = [op |-> "calculate_root", commit |-> c, paths |-> <<>>,
                results |-> <<calculate_root_on(c, all_ok)>>]
    /\ UNCHANGED <<input, output, racers, remote, odb, refs, publisher, push_tasks, errors, awaiting, calls,
                   published, spawned, finished, vrecords, vresult>>

\* The remote's HEAD moves to another commit (a push by anyone).
RemoteHead(h) ==
    /\ h # remote.head
    /\ remote' = [remote EXCEPT !.head = h]
    /\ last' = [op |-> "remote_head", commit |-> h, paths |-> <<>>, results |-> <<>>]
    /\ UNCHANGED <<input, output, racers, odb, refs, publisher, push_tasks, errors, awaiting, calls,
                   published, spawned, finished, vrecords, vresult>>

DoEkalaInit == \E transport_ok \in BOOLEAN : EkalaInit(transport_ok)

DoCalculateRoot == \E c \in StoreCommits, all_ok \in BOOLEAN : CalculateRoot(c, all_ok)

DoRemoteHead == \E h \in StoreCommits : RemoteHead(h)

NextStore == DoEkalaInit \/ EkalaRoot \/ DoCalculateRoot \/ DoRemoteHead

SpecStore == InitStore /\ [][NextStore]_vars

(***************************************************************************)
(* Properties of publish_atom, checked under Spec.                          *)
(***************************************************************************)
\* A step of Spec that is a publish_atom call
IsPublishAtomStep == calls' = calls + 1

\* The Atom that publish_atom finds at the path of the call being made
AtomOfStep == find_and_verify_atom(publisher, last'.paths[1])

RefOf(kind, id, version) == <<Seg("refs")>> \o AtomRefName(kind, ref_prefix(id), version)

AtomIds == {"foo", "bar"}
AtomVersions == {"0.1.0", "0.2.0"}

\* C1: once publish_atom has returned Published for a path of a snapshot, a
\* further publish_atom call for the same path of the same snapshot returns
\* Skipped with the Id of the Atom and leaves the target of every reference
\* as the first call left it.
C1_Idempotent ==
    [][(IsPublishAtomStep /\ <<publisher.commit, last'.paths[1]>> \in published)
          => /\ last'.results[1].tag = "Skipped"
             /\ last'.results[1].id = AtomOfStep.val.spec.id
             /\ refs' = refs]_vars

\* A second call for an Atom already published from the snapshot came back Skipped
C1_Witness ==
    /\ last.op = "publish_atom"
    /\ last.results[1].tag = "Skipped"
    /\ <<last.commit, last.paths[1]>> \in published
    /\ \A kind \in {"Content", "Spec", "Origin"} :
           RefOf(kind, last.results[1].id, "0.1.0") \in DOMAIN refs

\* C2: in every state between calls, each Atom version has all three of its
\* references (content, spec, origin) in the local store, or none of them.
C2_AllOrNone ==
    \A id \in AtomIds, version \in AtomVersions :
        \/ \A kind \in {"Content", "Spec", "Origin"} : RefOf(kind, id, version) \in DOMAIN refs
        \/ \A kind \in {"Content", "Spec", "Origin"} : RefOf(kind, id, version) \notin DOMAIN refs

\* C3: no step changes the target of a reference of the local store, or
\* deletes one.
C3_WriteOnce ==
    [][\A n \in DOMAIN refs : n \in DOMAIN refs' /\ refs'[n] = refs[n]]_vars

\* A publish_atom call met a reference that exists with another target, and
\* the references of the Atom are still there
C3_Witness ==
    /\ last.op = "publish_atom"
    /\ last.results[1].tag = "Err"
    /\ last.results[1].error.kind = "RefUpdateFailed"
    /\ last.results[1].error.name \in DOMAIN refs

\* The content reference of the Atom of the call exists and points at a
\* commit whose tree is not the content tree of the Atom
PublishedWithOtherContent(atom) ==
    LET name == FullRef(atom, "Content")
    IN  /\ name \in DOMAIN refs
        /\ refs[name].tree # content_tree(atom)

\* C4: a publish_atom call for an Atom whose id and version are published
\* with different content returns an error, on every attempt.
C4_CollisionIsError ==
    [][(/\ IsPublishAtomStep
        /\ AtomOfStep.tag = "Ok"
        /\ PublishedWithOtherContent(AtomOfStep.val))
          => last'.results[1].tag = "Err"]_vars

\* C5: publish_atom returns Skipped exactly when the content reference of
\* the Atom exists, points at a commit of the content tree computed for the
\* Atom now, and this tree is in the object store.
C5_SkippedExactly ==
    [][IsPublishAtomStep
          => (last'.results[1].tag = "Skipped"
                <=> /\ AtomOfStep.tag = "Ok"
                    /\ FullRef(AtomOfStep.val, "Content") \in DOMAIN refs
                    /\ ~PublishedWithOtherContent(AtomOfStep.val)
                    /\ content_tree(AtomOfStep.val) \in odb)]_vars

\* C6: an Atom is published only with an AtomId whose root is the root held
\* by the publisher; a publish_atom call for an Atom of another root fails
\* with InconsistentRoot and writes no reference.
C6_RootConsistent ==
    [][IsPublishAtomStep
          => /\ last'.results[1].tag = "Published"
                    => last'.results[1].id.root = publisher.root
             /\ (AtomOfStep.tag = "Ok" /\ AtomOfStep.val.id.root # publisher.root)
                    => /\ last'.results[1].tag = "Err"
                       /\ last'.results[1].error.kind = "InconsistentRoot"
                       /\ refs' = refs]_vars

(***************************************************************************)
(* Properties of state validation, checked under SpecValidate.              *)
(***************************************************************************)
\* The file name ends in "@.toml"
NamedAsManifest(f) == f.ext = "toml" /\ f.stem # <<>> /\ f.stem[Len(f.stem)] = "@"

\* The records of the snapshot that are blobs named as manifests and that
\* parse to a valid manifest
ValidManifests ==
    {i \in DOMAIN vrecords :
        /\ vrecords[i].mode = "blob"
        /\ NamedAsManifest(vrecords[i].filepath)
        /\ vrecords[i].oid.toml /\ vrecords[i].oid.atom_key /\ vrecords[i].oid.schema}

\* C7: validate fails, with Duplicates, if and only if two valid manifests
\* of the snapshot have the same Id; otherwise it returns the map that holds
\* exactly one entry Id -> path for every valid manifest, and nothing for a
\* manifest that fails to parse.
C7_Validate ==
    vresult # None =>
        LET r == vresult.val
            duplicates == \E i, j \in ValidManifests :
                              i # j /\ vrecords[i].oid.id = vrecords[j].oid.id
        IN  /\ r.tag = "Err" <=> duplicates
            /\ r.tag = "Err" => r.error.kind = "Duplicates"
            /\ r.tag = "Ok" =>
                  /\ DOMAIN r.val = {vrecords[i].oid.id : i \in ValidManifests}
                  /\ \A i \in ValidManifests : r.val[vrecords[i].oid.id] = vrecords[i].filepath

\* validate returned a map for a snapshot that holds a valid manifest, a
\* manifest that does not parse, and a valid manifest under another name
C7_Witness ==
    /\ vresult # None
    /\ vresult.val.tag = "Ok"
    /\ ValidManifests # {}
    /\ \E i \in DOMAIN vrecords :
           /\ vrecords[i].mode = "blob"
           /\ NamedAsManifest(vrecords[i].filepath)
           /\ ~vrecords[i].oid.toml
    /\ \E i \in DOMAIN vrecords :
           /\ vrecords[i].mode = "blob"
           /\ ~NamedAsManifest(vrecords[i].filepath)
           /\ vrecords[i].oid.toml /\ vrecords[i].oid.atom_key

(***************************************************************************)
(* Properties of build, checked under Spec.                                 *)
(***************************************************************************)
\* Two blobs of the snapshot named as manifests parse to valid manifests of
\* the same Id
SnapshotHasDuplicates(c) ==
    \E i, j \in DOMAIN TreeOf(c) :
        /\ i # j
        /\ \A k \in {i, j} :
               /\ TreeOf(c)[k].mode = "blob"
               /\ NamedAsManifest(TreeOf(c)[k].filepath)
               /\ TreeOf(c)[k].oid.toml /\ TreeOf(c)[k].oid.atom_key
        /\ TreeOf(c)[i].oid.id = TreeOf(c)[j].oid.id

OutcomeOfPath(ctx, st, path, bare) ==
    IF ~bare /\ path.stem[1] = ".."
    THEN Outcome(st, <<>>, Failed([kind |-> "NormalizationFailed"], path))
    ELSE publish_atom(ctx, st, path, "none")

\* The results of processing the paths from the i-th on, each on its own, in
\* order, each from the store its predecessors left behind
RECURSIVE ResultsInTurn(_, _, _, _)
ResultsInTurn(ctx, st, call, i) ==
    IF i > Len(call.paths) THEN <<>>
    ELSE LET o == OutcomeOfPath(ctx, st, call.paths[i], call.bare)
         IN  <<o.result>> \o ResultsInTurn(ctx, Store(o.odb, o.refs), call, i + 1)

C10_AwaitCollectsAll ==
    (last.op = "await_pushes" /\ awaiting = "idle") =>
        /\ push_tasks = {}
        /\ \A r \in spawned : \E f \in finished : f.ref = r
        /\ Len(errors) = Cardinality({f \in finished : f.status = "err"})
        /\ \A f \in finished :
               f.status = "err" => \E i \in DOMAIN errors : errors[i].ref = f.ref

\* await_pushes returned after a push task failed and another went through
C10_Witness ==
    /\ last.op = "await_pushes"
    /\ awaiting = "idle"
    /\ \E f, g \in finished : f.status = "err" /\ g.status = "ok"
    /\ Cardinality(spawned) > Cardinality({f \in finished : f.status = "err"})

(***************************************************************************)
(* Racing publishers: two publishers, built from different commits, run      *)
(* publish_atom for the same path on one repository, one write at a time.    *)
(***************************************************************************)
Racers == {1, 2}

RacePath == Path(<<"a", "@">>, TOML)

\* The commits the racing publishers are built from: the same id and
\* version at RacePath, with different content.
RaceCommits == {"c1", "c2", "c3"}

RaceAtom(r) == find_and_verify_atom(r.ctx, RacePath).val

Racer(commit) ==
    [ctx |-> GitContext_set(commit, calculate_root(commit).val),
     pc |-> "check", result |-> None]

InitRace ==
    /\ remote = [head |-> "c3", refs |-> [n \in {V1_ROOT} |-> CommitId("c1")]]
    /\ odb = RepoObjects
    /\ refs = NoRefs
    /\ publisher = NoPublisher
    /\ push_tasks = {}
    /\ errors = <<>>
    /\ awaiting = "idle"
    /\ last = NoCall
    /\ calls = 0
    /\ published = {}
    /\ spawned = {}
    /\ finished = {}
    /\ vrecords = <<>>
    /\ vresult = None
    /\ racers \in {[p \in Racers |-> Racer(pair[p])] :
                       pair \in {q \in RaceCommits \X RaceCommits : q[1] # q[2]}}
    /\ input = None
    /\ output = None

\* What a racer's step leaves unchanged.
RaceFrame ==
    UNCHANGED <<input, output, remote, publisher, push_tasks, errors, awaiting, last, calls,
                published, spawned, finished, vrecords, vresult>>

\* The racer p goes on to pc.
RaceGoto(p, pc) == racers' = [racers EXCEPT ![p].pc = pc]

\* The racer p returns result from publish_atom.
RaceReturn(p, result) ==
    racers' = [racers EXCEPT ![p].pc = "done", ![p].result = Some(result)]

\* write_atom_tree, the test: ref_exists on the content tree.
RaceCheck(p) ==
    /\ racers[p].pc = "check"
    /\ IF ref_exists(odb, refs, content_tree(RaceAtom(racers[p])),
                     atom_refs(RaceAtom(racers[p]), "Content"))
       THEN RaceReturn(p, Skipped(RaceAtom(racers[p]).spec.id, RacePath))
       ELSE RaceGoto(p, "tree")
    /\ UNCHANGED <<odb, refs>>
    /\ RaceFrame

\* A write_object of the racer p: the content tree, the commit or the
\* spec tree.
RaceWriteObject(p, pc, obj, next, refused) ==
    /\ racers[p].pc = pc
    /\ \E w \in {write_object(odb, obj, refused)} :
           IF w.tag = "Err"
           THEN /\ RaceReturn(p, Failed(w.error, RacePath))
                /\ odb' = odb
           ELSE /\ RaceGoto(p, next)
                /\ odb' = w.val
    /\ UNCHANGED refs
    /\ RaceFrame

\* Variant: a refused reference write does not stop the racer.
RaceWriteRef_unchecked(p, kind, next, fail) ==
    /\ racers[p].pc = kind
    /\ \E atom \in {RaceAtom(racers[p])} :
        \E w \in {write_ref_step(refs, atom, DigestOf(racers[p].ctx, atom, kind),
                                 kind, fail)} :
           /\ refs' = IF w.tag = "Err" THEN refs ELSE w.val
           /\ IF next = "done"
              THEN RaceReturn(p, Published(atom,
                                  GitContent(atom,
                                      [spec |-> DigestOf(racers[p].ctx, atom, "Spec"),
                                       content |-> DigestOf(racers[p].ctx, atom, "Content"),
                                       origin |-> DigestOf(racers[p].ctx, atom, "Origin")])))
              ELSE RaceGoto(p, next)
    /\ UNCHANGED odb
    /\ RaceFrame

\* One write_ref of write_refs by the racer p; after the last one
\* publish_atom returns Published.
RaceWriteRef(p, kind, next, fail) ==
    /\ racers[p].pc = kind
    /\ \E atom \in {RaceAtom(racers[p])} :
        \E w \in {write_ref_step(refs, atom, DigestOf(racers[p].ctx, atom, kind),
                                 kind, fail)} :
           IF w.tag = "Err"
           THEN /\ RaceReturn(p, Failed(w.error, RacePath))
                /\ refs' = refs
           ELSE /\ refs' = w.val
                /\ IF next = "done"
                   THEN RaceReturn(p, Published(atom,
                                       GitContent(atom,
                                           [spec |-> DigestOf(racers[p].ctx, atom, "Spec"),
                                            content |-> DigestOf(racers[p].ctx, atom, "Content"),
                                            origin |-> DigestOf(racers[p].ctx, atom, "Origin")])))
                   ELSE RaceGoto(p, next)
    /\ UNCHANGED odb
    /\ RaceFrame

DoRaceCheck == \E p \in Racers : RaceCheck(p)

DoRaceTree ==
    \E p \in Racers, refused \in BOOLEAN :
        RaceWriteObject(p, "tree", content_tree(RaceAtom(racers[p])), "commit", refused)

DoRaceCommit ==
    \E p \in Racers, refused \in BOOLEAN :
        RaceWriteObject(p, "commit", DigestOf(racers[p].ctx, RaceAtom(racers[p]), "Content"),
                        "spec_tree", refused)

DoRaceSpecTree ==
    \E p \in Racers, refused \in BOOLEAN :
        RaceWriteObject(p, "spec_tree", spec_tree(RaceAtom(racers[p])), "Spec", refused)

DoRaceSpec ==
    \E p \in Racers, fail \in {"none", "Spec"} : RaceWriteRef(p, "Spec", "Content", fail)

DoRaceContent ==
    \E p \in Racers, fail \in {"none", "Content"} :
        RaceWriteRef(p, "Content", "Origin", fail)

DoRaceOrigin ==
    \E p \in Racers, fail \in {"none", "Origin"} : RaceWriteRef(p, "Origin", "done", fail)

NextRace ==
    \/ DoRaceCheck
    \/ DoRaceTree
    \/ DoRaceCommit
    \/ DoRaceSpecTree
    \/ DoRaceSpec
    \/ DoRaceContent
    \/ DoRaceOrigin

SpecRace == InitRace /\ [][NextRace]_vars

(***************************************************************************)
(* The store root.                                                          *)
(***************************************************************************)
\* The commits a commit descends from, itself included, as far as they can
\* be read.
RECURSIVE AncestorsOrSelf(_)
AncestorsOrSelf(c) ==
    {c} \cup UNION {AncestorsOrSelf(p) : p \in (Parents(c) \ Unreadable)}

\* The parentless commits of the history of c.
ParentlessOf(c) == {a \in AncestorsOrSelf(c) : Parents(a) = {}}

\* C11: after ekala_init(remote) succeeds on a remote whose HEAD history
\* contains a parentless commit (a one-commit history included), the remote is
\* an Ekala store: refs/tags/ekala/root/v1 targets the root of the remote's
\* HEAD, is_ekala_store(remote) is true and ekala_root(remote) returns that
\* root.
C11_InitMakesStore ==
    (/\ last.op = "ekala_init"
     /\ last.results[1].tag = "Ok"
     /\ ParentlessOf(remote.head) # {})
        => /\ last.results[1].val \in ParentlessOf(remote.head)
           /\ V1_ROOT \in DOMAIN remote.refs
           /\ remote.refs[V1_ROOT] = CommitId(last.results[1].val)
           /\ is_ekala_store(remote)
           /\ ekala_root(remote) = Ok(last.results[1].val)


\* C12: ekala_root(remote) returns a root R only when the remote has
\* refs/tags/ekala/root/v1 and the target of that tag is exactly the root R
\* computed from the remote's HEAD; when the tag is absent it fails
\* (is_ekala_store is false), and when the tag targets any commit other than
\* that root, a non-root commit of the same history included, it fails with
\* RootInconsistent.
C12_RootOnlyWhenTagged ==
    last.op = "ekala_root"
        => LET r == last.results[1]
               tagged == V1_ROOT \in DOMAIN remote.refs
           IN  /\ r.tag = "Ok"
                    => /\ tagged
                       /\ remote.refs[V1_ROOT] = CommitId(r.val)
                       /\ r.val \in ParentlessOf(remote.head)
               /\ ~tagged
                    => /\ r.tag = "Err"
                       /\ ~is_ekala_store(remote)
               /\ (/\ tagged
                   /\ ParentlessOf(remote.head) # {}
                   /\ \A p \in ParentlessOf(remote.head) :
                          remote.refs[V1_ROOT] # CommitId(p))
                    => r = Err([kind |-> "RootInconsistent"])


\* A step of ekala_init whose computed root differs from the tag stored in rs.
InitAgainst(rs) ==
    /\ last'.op = "ekala_init"
    /\ calculate_root(remote.head).tag = "Ok"
    /\ V1_ROOT \in DOMAIN rs
    /\ rs[V1_ROOT] # CommitId(calculate_root(remote.head).val)

\* No step changes the target of the root tag held by rs, once it exists.
TagKept(rs, rs2) ==
    V1_ROOT \in DOMAIN rs
        => /\ V1_ROOT \in DOMAIN rs2
           /\ rs2[V1_ROOT] = rs[V1_ROOT]

C15_WalkErrorsReported ==
    last.op = "calculate_root"
        => LET r == last.results[1]
               traversal_error == \E a \in AncestorsOrSelf(last.commit) :
                                      Parents(a) \cap Unreadable # {}
           IN  /\ (r.tag = "Err" /\ r.error.kind = "RootNotFound")
                    => /\ ~traversal_error
                       /\ ParentlessOf(last.commit) = {}
               /\ traversal_error
                    => r = Err([kind |-> "WalkFailure"])


(***************************************************************************)
(* The published record and the references of an Atom.                      *)
(***************************************************************************)
\* The entries of the snapshot of a commit that belong to the Atom at path:
\* the manifest, the lock file beside it and the directory beside it.
EntriesOfAtom(commit, path) ==
    {e \in Range(TreeOf(commit)) :
        \/ e.filepath = path /\ e.mode = "blob"
        \/ e.filepath = with_extension(path, ATOM_LOCK) /\ e.mode = "blob"
        \/ e.filepath = with_extension(path, "") /\ e.mode = "tree"}

\* C16: for every Published record the origin reference targets the commit
\* the publisher was built from, the content reference targets a parentless
\* commit whose tree is the content tree assembled from the entries
\* discovered for the Atom, the spec reference resolves to the tree holding
\* only the Atom's blob entries, the record's path equals the published
\* manifest path and its ref prefix is atoms/<id>.
C16_PublishedRecord ==
    (/\ last.op = "publish_atom"
     /\ last.results[1].tag = "Published")
        => LET r == last.results[1]
               g == r.content
               found == EntriesOfAtom(last.commit, last.paths[1])
               blobs == {e \in found : e.mode = "blob"}
           IN  /\ g.origin.name \in DOMAIN refs
               /\ refs[g.origin.name] = g.origin.target
               /\ g.origin.target = CommitId(last.commit)
               /\ g.content.name \in DOMAIN refs
               /\ refs[g.content.name] = g.content.target
               /\ g.content.target.type = "commit"
               /\ g.content.target.parents = <<>>
               /\ g.content.target.tree.type = "tree"
               /\ g.content.target.tree \in odb
               /\ Range(g.content.target.tree.entries) = {atom_entry(e) : e \in found}
               /\ Len(g.content.target.tree.entries) = Cardinality(found)
               /\ g.spec.name \in DOMAIN refs
               /\ refs[g.spec.name] = g.spec.target
               /\ g.spec.target.type = "tree"
               /\ g.spec.target \in odb
               /\ Range(g.spec.target.entries) = {atom_entry(e) : e \in blobs}
               /\ Len(g.spec.target.entries) = Cardinality(blobs)
               /\ r.path = last.paths[1]
               /\ g.path = last.paths[1]
               /\ g.ref_prefix = <<<<ATOM_REF_TOP_LEVEL>>, <<r.id.id>>>>

\* An Atom with a manifest, a lock file and a directory has been published.
C16_Witness ==
    /\ last.op = "publish_atom"
    /\ last.results[1].tag = "Published"
    /\ Cardinality(EntriesOfAtom(last.commit, last.paths[1])) = 3
    /\ Len(last.results[1].content.spec.target.entries) = 2


\* The version in the manifest of the Atom at path in the snapshot of commit.
VersionOfAtom(commit, path) ==
    (CHOOSE e \in EntriesOfAtom(commit, path) : e.filepath = path).oid.version

\* The names claimed for the references of an Atom: <version>,
\* _specs/<version> and _origins/<version> under refs/atoms/<id>/.
ClaimedRefs(id, version) ==
    LET prefix == <<<<"refs">>, <<"atoms">>, <<id>>>>
    IN  {prefix \o <<<<version>>>>,
         prefix \o <<<<"_", "spec", "s">>, <<version>>>>,
         prefix \o <<<<"_", "origin", "s">>, <<version>>>>}

\* The references of the store under refs/atoms/<id>/ for a version.
RefsOfAtom(id, version) ==
    {n \in DOMAIN refs :
        /\ Len(n) > 3
        /\ SubSeq(n, 1, 3) = <<<<"refs">>, <<"atoms">>, <<id>>>>
        /\ n[Len(n)] = <<version>>}

\* C17: every published Atom gets exactly three references under
\* refs/atoms/<id>/, named <version>, _specs/<version> and
\* _origins/<version>; the publisher writes no reference of an older layout
\* (such as _srcs/<version>, tip, spec or src).
C17_ThreeReferences ==
    (/\ last.op = "publish_atom"
     /\ last.results[1].tag = "Published")
        => RefsOfAtom(last.results[1].id.id,
                      VersionOfAtom(last.commit, last.paths[1]))
               = ClaimedRefs(last.results[1].id.id,
                             VersionOfAtom(last.commit, last.paths[1]))


\* The commit object fixed by a content tree, an id, a version, a source
\* commit and the directory of the manifest path.
CommitOf(tree, id, version, src, dir) ==
    [type |-> "commit",
     tree |-> tree,
     parents |-> <<>>,
     author |-> [name |-> "", email |-> "", seconds |-> 0, offset |-> 0],
     committer |-> [name |-> "", email |-> "", seconds |-> 0, offset |-> 0],
     message |-> <<id, ": ", version>>,
     extra_headers |-> << <<"src", src>>, <<"path", dir>>, <<"format", "1">> >>]

\* C18: the content commit is determined by the content tree, the id, the
\* version, the source commit and the manifest path: empty author and
\* committer, epoch time, no parents, message "<id>: <version>" and the three
\* extra headers in fixed order, whatever the state of the store, the number
\* of earlier calls and the earlier publishes.  The manifest paths of the
\* snapshots are top-level, so the directory of the path header is empty.
C18_CommitDeterministic ==
    (/\ last.op = "publish_atom"
     /\ last.results[1].tag = "Published")
        => LET g == last.results[1].content
           IN  /\ g.content.target
                    = CommitOf(g.content.target.tree,
                               last.results[1].id.id,
                               VersionOfAtom(last.commit, last.paths[1]),
                               last.commit,
                               "")
               /\ g.content.target \in odb

\* An Atom has been published after earlier calls that left other
\* references in the store.
C18_Witness ==
    /\ last.op = "publish_atom"
    /\ last.results[1].tag = "Published"
    /\ calls > 1
    /\ Cardinality(DOMAIN refs) > 3


\* The first reference write of write_refs that meets an existing reference.
FirstExisting(atom) ==
    IF FullRef(atom, "Spec") \in DOMAIN refs THEN "Spec"
    ELSE IF FullRef(atom, "Content") \in DOMAIN refs THEN "Content"
    ELSE IF FullRef(atom, "Origin") \in DOMAIN refs THEN "Origin"
    ELSE "none"

\* A publish_atom step that gets to the reference writes, is not refused by
\* the repository for any other reason, and meets an existing reference.
MeetsExistingRef ==
    /\ IsPublishAtomStep
    /\ AtomOfStep.tag = "Ok"
    /\ ~ref_exists(odb, refs, content_tree(AtomOfStep.val),
                   atom_refs(AtomOfStep.val, "Content"))
    /\ FirstExisting(AtomOfStep.val) # "none"
    /\ ~(/\ last'.results[1].tag = "Err"
         /\ last'.results[1].error.kind = "Io")

\* C19: when a reference write of publish_atom meets a reference that already
\* exists, publish_atom reports Skipped(id) if the existing reference's target
\* equals the digest being written, and returns an error otherwise.
C19_SkippedOnEqualDigest ==
    [][MeetsExistingRef
          => LET atom == AtomOfStep.val
                 kind == FirstExisting(atom)
             IN  IF refs[FullRef(atom, kind)] = DigestOf(publisher, atom, kind)
                 THEN /\ last'.results[1].tag = "Skipped"
                      /\ last'.results[1].id = atom.spec.id
                 ELSE last'.results[1].tag = "Err"]_vars


\* The references of the raced Atom that exist all carry the targets of p.
AllWrittenBy(p) ==
    \A kind \in {"Spec", "Content", "Origin"} :
        FullRef(RaceAtom(racers[p]), kind) \in DOMAIN refs
            => refs[FullRef(RaceAtom(racers[p]), kind)]
                   = DigestOf(racers[p].ctx, RaceAtom(racers[p]), kind)

ReturnedPublished(p) ==
    /\ racers[p].result # None
    /\ racers[p].result.val.tag = "Published"

\* C20: for two publishers interleaving publish_atom of the same id and
\* version with different content on one object store, at most one returns
\* Published, and in every reachable state the references of that Atom that
\* exist carry the targets of one publisher, never a mix of the two.
C20_RaceSerialized ==
    /\ ~(ReturnedPublished(1) /\ ReturnedPublished(2))
    /\ \E p \in Racers : AllWrittenBy(p)
    /\ \A p \in Racers : ReturnedPublished(p) => AllWrittenBy(p)

\* Both publishers passed the skip test before either wrote a reference,
\* both wrote the same spec tree to the spec reference, one has returned
\* Published and the other an error.
C20_Witness ==
    /\ \E p \in Racers :
           /\ ReturnedPublished(p)
           /\ \E q \in Racers \ {p} :
                  /\ racers[q].result # None
                  /\ racers[q].result.val.tag = "Err"
                  /\ racers[q].result.val.error.kind = "RefUpdateFailed"
                  /\ DigestOf(racers[q].ctx, RaceAtom(racers[q]), "Spec")
                         = DigestOf(racers[p].ctx, RaceAtom(racers[p]), "Spec")

(***************************************************************************)
(* id/mod.rs: the validation of an Id.  A string is a sequence of           *)
(* characters; a character is named by a string and has a Unicode general   *)
(* category and a length in UTF-8 bytes.                                    *)
(***************************************************************************)
ID_MAX == 128

\* The characters drawn: a, A, U+01C5 (titlecase), U+02B0 (modifier letter),
\* U+6C49 (other letter), 9, U+2167 (letter number), U+00B2 (other number),
\* '-', '_', '!'.
IdChars == {"a", "A", "U+01C5", "U+02B0", "U+6C49", "9", "U+2167", "U+00B2",
            "-", "_", "!"}

\* GeneralCategory::of
GeneralCategory(c) ==
    CASE c = "a" -> "LowercaseLetter"
      [] c = "A" -> "UppercaseLetter"
      [] c = "U+01C5" -> "TitlecaseLetter"
      [] c = "U+02B0" -> "ModifierLetter"
      [] c = "U+6C49" -> "OtherLetter"
      [] c = "9" -> "DecimalNumber"
      [] c = "U+2167" -> "LetterNumber"
      [] c = "U+00B2" -> "OtherNumber"
      [] c = "-" -> "DashPunctuation"
      [] c = "_" -> "ConnectorPunctuation"
      [] c = "!" -> "OtherPunctuation"

\* char::len_utf8
len_utf8(c) ==
    CASE c \in {"U+01C5", "U+02B0", "U+00B2"} -> 2
      [] c \in {"U+6C49", "U+2167"} -> 3
      [] OTHER -> 1

\* Variant: the length of a string in characters
str_len_chars(s) == Len(s)

\* The bytes of the characters lo..hi of a string, summed by halves
RECURSIVE bytes_between(_, _, _)
bytes_between(s, lo, hi) ==
    IF lo > hi THEN 0
    ELSE IF lo = hi THEN len_utf8(s[lo])
    ELSE bytes_between(s, lo, (lo + hi) \div 2)
            + bytes_between(s, ((lo + hi) \div 2) + 1, hi)

\* str::len: the length of a string in bytes
str_len(s) == bytes_between(s, 1, Len(s))

is_valid_char(c) ==
    \/ GeneralCategory(c) \in {"LowercaseLetter", "UppercaseLetter", "TitlecaseLetter",
                               "ModifierLetter", "OtherLetter", "DecimalNumber",
                               "LetterNumber"}
    \/ c = "-"
    \/ c = "_"

is_invalid_start(c) ==
    \/ GeneralCategory(c) \in {"DecimalNumber", "LetterNumber"}
    \/ c = "_"
    \/ c = "-"
    \/ ~is_valid_char(c)

validate_start(c) ==
    IF is_invalid_start(c)
    THEN Err([kind |-> "InvalidStart", c |-> c])
    ELSE Ok(<<>>)

\* s.chars().filter(|&c| !Id::is_valid_char(c)).collect()
invalid_chars(s) == SelectSeq(s, LAMBDA c : ~is_valid_char(c))

\* Id::validate
Id_validate(s) ==
    IF str_len(s) > ID_MAX
    THEN Err([kind |-> "TooLong"])
    ELSE IF s = <<>>
         THEN Err([kind |-> "Empty"])
         ELSE IF validate_start(Head(s)).tag = "Err"
              THEN validate_start(Head(s))
              ELSE IF invalid_chars(s) # <<>>
                   THEN Err([kind |-> "InvalidCharacters", chars |-> invalid_chars(s)])
                   ELSE Ok(<<>>)

\* n times the character c
Repeat(c, n) == [i \in 1..n |-> c]

\* The strings drawn: every string of up to MaxIdLen characters, and long
\* strings around ID_MAX bytes: a first character, then a one-byte or a
\* three-byte character repeated.
IdInputs ==
    SeqsUpTo(IdChars, MaxIdLen)
        \cup {<<f>> \o Repeat("a", n) : f \in IdChars, n \in {ID_MAX - 3, ID_MAX - 1, ID_MAX}}
        \cup {<<f>> \o Repeat("U+6C49", n) : f \in IdChars, n \in {42, 43}}
        \cup {<<f>> \o Repeat("!", n) : f \in {"a", "9"}, n \in {ID_MAX - 1, ID_MAX}}

InitId ==
    /\ remote = [head |-> "c1", refs |-> NoRefs]
    /\ odb = RepoObjects
    /\ refs = NoRefs
    /\ publisher = NoPublisher
    /\ push_tasks = {}
    /\ errors = <<>>
    /\ awaiting = "idle"
    /\ last = NoCall
    /\ calls = 0
    /\ published = {}
    /\ spawned = {}
    /\ finished = {}
    /\ vrecords = <<>>
    /\ vresult = None
    /\ racers = NoRacers
    /\ input \in IdInputs
    /\ output = None

\* What a step of the function harness leaves unchanged.
HarnessFrame ==
    UNCHANGED <<remote, odb, refs, publisher, push_tasks, errors, awaiting, last, calls,
                published, spawned, finished, vrecords, vresult, racers, input>>

\* Id::try_from(input)
ValidateId ==
    /\ output = None
    /\ output' = Some(Id_validate(input))
    /\ HarnessFrame

NextId == ValidateId

SpecId == InitId /\ [][NextId]_vars

\* The letters, and the numbers allowed after the first character.
LetterCategories ==
    {"LowercaseLetter", "UppercaseLetter", "TitlecaseLetter", "ModifierLetter",
     "OtherLetter"}

IsLetter(c) == GeneralCategory(c) \in LetterCategories

IsLater(c) ==
    \/ IsLetter(c)
    \/ GeneralCategory(c) \in {"DecimalNumber", "LetterNumber"}
    \/ c \in {"-", "_"}

\* The length of a string in bytes: its characters counted by width.
SumBytes(s) ==
    Cardinality({i \in DOMAIN s : TRUE})
        + Cardinality({i \in DOMAIN s : len_utf8(s[i]) >= 2})
        + Cardinality({i \in DOMAIN s : len_utf8(s[i]) >= 3})

Offenders(s) == SelectSeq(s, LAMBDA c : ~IsLater(c))

utf8(c) ==
    CASE c = "a" -> <<97>>
      [] c = "A" -> <<65>>
      [] c = "9" -> <<57>>
      [] c = "-" -> <<45>>
      [] c = "_" -> <<95>>
      [] c = "!" -> <<33>>
      [] c = "U+00B2" -> <<194, 178>>
      [] c = "U+01C5" -> <<199, 133>>
      [] c = "U+02B0" -> <<202, 176>>
      [] c = "U+2167" -> <<226, 133, 167>>
      [] c = "U+6C49" -> <<230, 177, 137>>

\* str::as_bytes
RECURSIVE as_bytes(_)
as_bytes(s) == IF s = <<>> THEN <<>> ELSE utf8(Head(s)) \o as_bytes(Tail(s))

\* blake3::derive_key(context, key_material)
derive_key(context, key_material) ==
    [blake3 |-> "derive_key", context |-> context, key_material |-> key_material]

\* Hasher::new_keyed(key), update(data), finalize()
keyed_hash(key, data) == [blake3 |-> "keyed", key |-> key, data |-> data]

\* Variant: the hash is keyed with the context alone, not with the root
compute_hash_rootless(atom_id) ==
    keyed_hash(derive_key("AtomId", <<>>), as_bytes(atom_id.id))

\* ComputeHash for AtomId: the root keys the hash of the id
compute_hash(atom_id) ==
    keyed_hash(derive_key("AtomId", atom_id.root), as_bytes(atom_id.id))

\* The AtomIds drawn: valid ids of up to MaxIdLen characters in the stores
\* rooted at c1 and d1.
HashIds == {s \in SeqsUpTo({"a", "A", "U+6C49", "9"}, MaxIdLen) : Id_validate(s).tag = "Ok"}

HashInputs == {[root |-> r, id |-> i] : r \in {"c1", "d1"}, i \in HashIds}

InitHash ==
    /\ remote = [head |-> "c1", refs |-> NoRefs]
    /\ odb = RepoObjects
    /\ refs = NoRefs
    /\ publisher = NoPublisher
    /\ push_tasks = {}
    /\ errors = <<>>
    /\ awaiting = "idle"
    /\ last = NoCall
    /\ calls = 0
    /\ published = {}
    /\ spawned = {}
    /\ finished = {}
    /\ vrecords = <<>>
    /\ vresult = None
    /\ racers = NoRacers
    /\ input \in HashInputs \X HashInputs
    /\ output = None

\* compute_hash of the two AtomIds drawn
ComputeHashes ==
    /\ output = None
    /\ output' = Some(<<compute_hash(input[1]), compute_hash(input[2])>>)
    /\ HarnessFrame

NextHash == ComputeHashes

SpecHash == InitHash /\ [][NextHash]_vars

AliasNames == {<<"gh">>, <<"org">>, <<"pkgs">>}

AliasExpansions ==
    { <<"github.com">>,
      <<"gh", ":", "nixos", "/", "nixpkgs">>,
      <<"org", ":", "team">>,
      <<"pkgs", ":", "lib">>,
      <<"hub", ":", "mirror">> }

\* The alias tables of a configuration: any of the names, each with an expansion
AliasTables ==
    UNION {[names -> AliasExpansions] : names \in SUBSET AliasNames}

\* str::split_once(':')
split_once(s) ==
    IF \E i \in 1..Len(s) : s[i] = ":"
    THEN LET i == CHOOSE k \in 1..Len(s) : s[k] = ":" /\ \A j \in 1..(k - 1) : s[j] # ":"
         IN  Some(<<SubSeq(s, 1, i - 1), SubSeq(s, i + 1, Len(s))>>)
    ELSE None

\* Aliases::get_alias
get_alias(aliases, s) ==
    IF s \in DOMAIN aliases THEN Ok(aliases[s]) ELSE Err([kind |-> "NoAlias", name |-> s])

\* Aliases::resolve_alias
resolve_alias(aliases, s) ==
    LET res == get_alias(aliases, s) IN
    IF res.tag = "Err" THEN res
    ELSE LET split == split_once(res.val) IN
         IF split = None THEN Ok(res.val)
         ELSE LET inner == get_alias(aliases, split.val[1]) IN
              IF inner.tag = "Err" THEN inner
              ELSE Ok(inner.val \o <<"/">> \o split.val[2])

InitAlias ==
    /\ remote = [head |-> "c1", refs |-> NoRefs]
    /\ odb = RepoObjects
    /\ refs = NoRefs
    /\ publisher = NoPublisher
    /\ push_tasks = {}
    /\ errors = <<>>
    /\ awaiting = "idle"
    /\ last = NoCall
    /\ calls = 0
    /\ published = {}
    /\ spawned = {}
    /\ finished = {}
    /\ vrecords = <<>>
    /\ vresult = None
    /\ racers = NoRacers
    /\ input \in AliasTables \X (AliasNames \cup {<<"hub">>})
    /\ output = None

\* resolve_alias of the name drawn against the table drawn
ResolveAlias ==
    /\ output = None
    /\ output' = Some(resolve_alias(input[1], input[2]))
    /\ HarnessFrame

NextAlias == ResolveAlias

SpecAlias == InitAlias /\ [][NextAlias]_vars

\* The alias an expansion starts with, when it has the form b:rest
ReferenceOf(expansion) == split_once(expansion)

\* C23: resolving a name that is not in the table fails with NoAlias(name);
\* when the expansion of a has the form b:rest and b is in the table the
\* result is expansion(b)/rest; and when expansion(b) itself references
\* another alias, resolution fails with NoAlias instead of returning a
\* partially expanded string.
C23_AliasResolution ==
    output # None =>
        LET aliases == input[1]
            a == input[2]
        IN  /\ a \notin DOMAIN aliases
                => output.val = Err([kind |-> "NoAlias", name |-> a])
            /\ (/\ a \in DOMAIN aliases
                /\ ReferenceOf(aliases[a]) # None
                /\ ReferenceOf(aliases[a]).val[1] \in DOMAIN aliases)
                => LET b == ReferenceOf(aliases[a]).val[1]
                       rest == ReferenceOf(aliases[a]).val[2]
                   IN  IF ReferenceOf(aliases[b]) = None
                       THEN output.val = Ok(aliases[b] \o <<"/">> \o rest)
                       ELSE /\ output.val.tag = "Err"
                            /\ output.val.error.kind = "NoAlias"

(***************************************************************************)
(* manifest.rs, core.rs: deserializing a manifest.  A document is its       *)
(* syntax (well-formed or not) and its top-level tables, a table being a    *)
(* function from its keys to their values.                                  *)
(***************************************************************************)
AtomKeys == {"id", "version", "description", "extra"}

ValuesOfKey(k) ==
    CASE k = "id" -> {<<"a">>, <<"9">>}
      [] k = "version" -> {<<"0.1.0">>, <<"one">>}
      [] k = "description" -> {<<"text">>}
      [] k = "extra" -> {<<"anything">>}

AtomTables ==
    {t \in UNION {[ks -> UNION {ValuesOfKey(k) : k \in AtomKeys}] : ks \in SUBSET AtomKeys} :
        \A k \in DOMAIN t : t[k] \in ValuesOfKey(k)}

\* [deps] tables: the optional sections are left out; "extra" is a key
\* Dependencies does not know
DepsTables == UNION {[ks -> {<<"anything">>}] : ks \in SUBSET {"extra"}}

TopTables(k) ==
    CASE k = "atom" -> AtomTables
      [] k = "deps" -> DepsTables
      [] k = "extra" -> DepsTables

Documents ==
    {[syntax |-> s, top |-> t] :
        s \in BOOLEAN,
        t \in {d \in UNION {[ks -> AtomTables \cup DepsTables] :
                                ks \in SUBSET {"atom", "deps", "extra"}} :
                    \A k \in DOMAIN d : d[k] \in TopTables(k)}}

\* semver::Version::parse
Version_parse(v) == IF v \in {<<"0.1.0">>} THEN Ok(v) ELSE Err([kind |-> "semver"])

\* #[derive(Deserialize)] for Atom: required id and version, optional
\* description; a key that names no field is skipped (the derive carries no
\* deny_unknown_fields)
deserialize_Atom(table) ==
    IF "id" \notin DOMAIN table THEN Err([kind |-> "missing field", field |-> "id"])
    ELSE IF Id_validate(table["id"]).tag = "Err"
    THEN Err([kind |-> "invalid value", field |-> "id"])
    ELSE IF "version" \notin DOMAIN table
    THEN Err([kind |-> "missing field", field |-> "version"])
    ELSE IF Version_parse(table["version"]).tag = "Err"
    THEN Err([kind |-> "invalid value", field |-> "version"])
    ELSE Ok([id |-> table["id"], version |-> table["version"],
             description |-> IF "description" \in DOMAIN table
                             THEN Some(table["description"]) ELSE None])

\* #[derive(Deserialize)] for Dependencies: every field optional, a key that
\* names no field is skipped
deserialize_Dependencies(table) == Ok([atoms |-> None, pins |-> None, srcs |-> None])

\* Manifest::get_atom over the text of a document
parse_atom(doc) ==
    IF ~doc.syntax THEN Err([kind |-> "InvalidToml"])
    ELSE IF "atom" \notin DOMAIN doc.top THEN Err([kind |-> "Missing"])
    ELSE LET atom == deserialize_Atom(doc.top["atom"])
         IN  IF atom.tag = "Err" THEN Err([kind |-> "InvalidAtom", cause |-> atom.error])
             ELSE atom

\* Manifest::from_str
parse_manifest(doc) ==
    IF ~doc.syntax THEN Err([kind |-> "syntax"])
    ELSE IF "atom" \notin DOMAIN doc.top THEN Err([kind |-> "missing field", field |-> "atom"])
    ELSE LET atom == deserialize_Atom(doc.top["atom"])
         IN  IF atom.tag = "Err" THEN atom
             ELSE Ok([atom |-> atom.val,
                      deps |-> IF "deps" \in DOMAIN doc.top
                               THEN Some(deserialize_Dependencies(doc.top["deps"]).val)
                               ELSE None])

InitManifest ==
    /\ remote = [head |-> "c1", refs |-> NoRefs]
    /\ odb = RepoObjects
    /\ refs = NoRefs
    /\ publisher = NoPublisher
    /\ push_tasks = {}
    /\ errors = <<>>
    /\ awaiting = "idle"
    /\ last = NoCall
    /\ calls = 0
    /\ published = {}
    /\ spawned = {}
    /\ finished = {}
    /\ vrecords = <<>>
    /\ vresult = None
    /\ racers = NoRacers
    /\ input \in Documents
    /\ output = None

ParseAtom ==
    /\ output = None
    /\ output' = Some([op |-> "parse_atom", result |-> parse_atom(input)])
    /\ HarnessFrame

ParseManifest ==
    /\ output = None
    /\ output' = Some([op |-> "parse_manifest", result |-> parse_manifest(input)])
    /\ HarnessFrame

NextManifest == ParseAtom \/ ParseManifest

SpecManifest == InitManifest /\ [][NextManifest]_vars

\* The document without the keys outside of keep at its top level
Restrict(f, keep) == [k \in DOMAIN f \cap keep |-> f[k]]

ParseOf(op, doc) == IF op = "parse_atom" THEN parse_atom(doc) ELSE parse_manifest(doc)

\* C24: parsing a manifest ignores unknown keys at the top level of the
\* document, but an unknown key inside a recognized table (an extra key in
\* [atom]) makes parsing fail with an error.
C24_KeyStrictness ==
    output # None =>
        /\ output.val.result
             = ParseOf(output.val.op,
                       [input EXCEPT !.top = Restrict(input.top, {"atom", "deps"})])
        /\ (/\ input.syntax
            /\ "atom" \in DOMAIN input.top
            /\ "extra" \in DOMAIN input.top["atom"])
                => output.val.result.tag = "Err"

(***************************************************************************)
(* The order of the publishing pipeline.                                    *)
(***************************************************************************)
RefKinds == {"Spec", "Content", "Origin"}

\* The push tasks that a step adds to the join set
SpawnedByStep == push_tasks' \ push_tasks

\* C25: within one publish_atom call the content tree is written before the
\* content commit and the commit before the references; push tasks are
\* spawned only after all three local references were written: a Published
\* outcome spawns exactly three push tasks (content, spec, origin, each
\* pushing its reference to the same name), a Skipped or failed outcome none.
C25_PipelineOrder ==
    [][IsPublishAtomStep
          => /\ IF last'.results[1].tag = "Published"
                THEN LET atom == AtomOfStep.val
                     IN  /\ SpawnedByStep
                              = {[ref |-> FullRef(atom, kind), status |-> "running"] :
                                    kind \in RefKinds}
                         /\ Cardinality(SpawnedByStep) = 3
                         /\ \A kind \in RefKinds :
                                /\ FullRef(atom, kind) \in DOMAIN refs'
                                /\ refs'[FullRef(atom, kind)] = DigestOf(publisher, atom, kind)
                ELSE SpawnedByStep = {}
             /\ AtomOfStep.tag = "Ok"
                  => LET atom == AtomOfStep.val
                         tree == content_tree(atom)
                         commit == atom_commit(publisher, atom, tree)
                     IN  /\ commit \in odb' \ odb => tree \in odb'
                         /\ refs' # refs => (tree \in odb' /\ commit \in odb')
                         /\ FullRef(atom, "Content") \in DOMAIN refs' \ DOMAIN refs
                              => FullRef(atom, "Spec") \in DOMAIN refs'
                         /\ FullRef(atom, "Origin") \in DOMAIN refs' \ DOMAIN refs
                              => FullRef(atom, "Content") \in DOMAIN refs']_vars

\* An Atom has been published and its three push tasks are in the join set.
C25_Witness ==
    /\ last.op = "publish_atom"
    /\ last.results[1].tag = "Published"
    /\ Cardinality(push_tasks) = 3
    /\ \A t \in push_tasks : t.ref \in DOMAIN refs

\* The entries of a tree are in ascending order of their file names
Ascending(entries) ==
    \A i, j \in DOMAIN entries : i < j => EntryLess(entries[i], entries[j])

\* C26: the spec tree written for an Atom holds exactly the blob entries
\* among the discovered entries (the manifest, plus the lock when there is
\* one, never the content directory), in ascending file-name order, for
\* Atoms without and with a lock file.
C26_SpecTreeSorted ==
    (/\ last.op = "publish_atom"
     /\ last.results[1].tag = "Published")
        => LET spec == last.results[1].content.spec.target
               blobs == {e \in EntriesOfAtom(last.commit, last.paths[1]) : e.mode = "blob"}
           IN  /\ spec \in odb
               /\ Range(spec.entries) = {atom_entry(e) : e \in blobs}
               /\ Len(spec.entries) = Cardinality(blobs)
               /\ \A e \in Range(spec.entries) : e.mode = "blob"
               /\ Ascending(spec.entries)

(***************************************************************************)
(* The references of an Atom on the remote.                                 *)
(***************************************************************************)
PublishedIds == {"foo", "bar"}
PublishedVersions == {"0.1.0", "0.2.0"}

\* The full name of the reference of a kind of the Atom id at version
RemoteName(kind, id, version) ==
    <<Seg("refs")>> \o AtomRefName(kind, ref_prefix(id), version)

OnRemote(kind, id, version) == RemoteName(kind, id, version) \in DOMAIN remote.refs

\* C27: in every reachable state of the remote, also while push tasks are in
\* flight and after some have failed, an Atom's content reference
\* refs/atoms/<id>/<version> is on the remote only together with its spec and
\* origin references.
C27_RemoteAtomic ==
    \A id \in PublishedIds, version \in PublishedVersions :
        OnRemote("Content", id, version)
            => OnRemote("Spec", id, version) /\ OnRemote("Origin", id, version)

\* C28: whenever publish_atom returns Skipped(id), all three references of
\* that id and version (content, spec and origin) exist in the local store;
\* Skipped is never reported for an Atom of which an earlier, failed attempt
\* wrote only some references.
C28_SkippedHasAllRefs ==
    (/\ last.op = "publish_atom"
     /\ last.results[1].tag = "Skipped")
        => \A kind \in RefKinds :
               RemoteName(kind, last.results[1].id,
                          VersionOfAtom(last.commit, last.paths[1])) \in DOMAIN refs

\* The human-readable id of the Atom a publish_atom result reports
ReportedId(r) == IF r.tag = "Published" THEN r.id.id ELSE r.id

\* await_pushes returns, having collected no error, after a publish_atom call
\* that reported its Atom Published or Skipped
AwaitsCleanAfterReport ==
    /\ awaiting = "joining"
    /\ awaiting' = "idle"
    /\ errors' = <<>>
    /\ last.op = "publish_atom"
    /\ last.results[1].tag \in {"Published", "Skipped"}

\* C29: if a publish run reports an Atom as Published or as Skipped and the
\* following await_pushes collects no error, then the remote holds all three
\* references of that Atom at that version, also when an earlier run had
\* written the Atom's local references but one of its push tasks failed.
C29_CleanAwaitMeansPushed ==
    [][AwaitsCleanAfterReport
          => \A kind \in RefKinds :
                 RemoteName(kind, ReportedId(last.results[1]),
                            VersionOfAtom(last.commit, last.paths[1]))
                     \in DOMAIN remote'.refs]_vars

\* C30: a failed ekala_init changes nothing: when ekala_init returns an error
\* (HEAD cannot be fetched, no root is found, or the push of the root tag
\* fails), the local refs/tags/ekala/root/v1 is as it was before the call.
C30_FailedInitChangesNothing ==
    [][(/\ last'.op = "ekala_init"
        /\ last'.results[1].tag = "Err")
          => /\ (V1_ROOT \in DOMAIN refs') = (V1_ROOT \in DOMAIN refs)
             /\ V1_ROOT \in DOMAIN refs => refs'[V1_ROOT] = refs[V1_ROOT]]_vars

====
